---- MODULE Spec2Model ----
(***************************************************************************)
(* A model of prefect.backend.flow.FlowView: the three lookup entry points *)
(* (from_flow_id, from_flow_obj, from_flow_name), the query helpers        *)
(* (query_for_flow, query_for_flows) and the record deserializer           *)
(* (from_flow_data), run against a backend table of flow rows.             *)
(*                                                                         *)
(* Python values are modelled as follows.  A dict is a function whose      *)
(* domain is its set of keys (a TLA+ record); a list is a sequence; None   *)
(* is NoneVal; an argument whose Python type matters is wrapped (Str, Num).*)
(* A call either returns a value, [ok |-> TRUE, value |-> v], or raises,   *)
(* [ok |-> FALSE, error |-> e].                                            *)
(***************************************************************************)
EXTENDS Integers, Sequences, FiniteSets, TLC

VARIABLES store, pc, call, query, outcome, flow_data

vars == <<store, pc, call, query, outcome, flow_data>>

(* The largest number of rows the backend's flow table holds. *)
MaxStore == 2

---------------------------------------------------------------------------
(* Python values *)

NoneVal == [py |-> "None"]

Str(s) == [str |-> s]

Num(i) == [int |-> i]

EmptyDict == <<>>

Returns(v) == [ok |-> TRUE, value |-> v]

Raises(e) == [ok |-> FALSE, error |-> e]

(* dict.pop(key) on a dict that holds key: the dict without that key *)
DictPop(d, key) == [k \in (DOMAIN d) \ {key} |-> d[k]]

---------------------------------------------------------------------------
(* The errors the module raises, by exception class and message *)

TypeErrorFlowId == [kind |-> "TypeError", msg |-> "Unexpected type for `flow_id`, expected 'str'."]

ErrFoundMultiple(where, n) ==
    [kind |-> "ValueError", msg |-> "Found multiple flows while querying for flows", where |-> where, count |-> n]

ErrFoundMultipleMatching(where) ==
    [kind |-> "ValueError", msg |-> "Found multiple flows matching", where |-> where]

ErrNoResults(where) ==
    [kind |-> "ValueError", msg |-> "No results found while querying for flows", where |-> where]

(* a missing flow list reported with the words of an empty one *)
ErrBadResult_AsNoResults(where) == ErrNoResults(where)

ErrBadResult(where) ==
    [kind |-> "ValueError", msg |-> "Received bad result while querying for flows", where |-> where]

ErrJsonbType(key) ==
    [kind |-> "ValueError", msg |-> "Passed variable is not a dict", key |-> key]

ErrKeyError(key) == [kind |-> "KeyError", key |-> key]

ErrNoneSubscript == [kind |-> "TypeError", msg |-> "'NoneType' object is not subscriptable"]

ErrInitArguments == [kind |-> "TypeError", msg |-> "__init__() got unexpected or missing keyword arguments"]

---------------------------------------------------------------------------
(* The graph and storage schemas (prefect.serialization) *)

SerializedFlow(name) == [type |-> "Flow", name |-> name]

CorruptFlow(name) == [type |-> "Corrupt", name |-> name]

FlowObj(name) == [cls |-> "Flow", flow_name |-> name]

(* flow.serialize() *)
FlowSerialize(flow) == [type |-> "Flow", name |-> flow.flow_name]

(* FlowSchema().load(data) *)
FlowSchemaLoad(data) ==
    IF data.type = "Flow"
    THEN Returns([cls |-> "Flow", flow_name |-> data.name])
    ELSE Raises([kind |-> "BadResponse", msg |-> "serialized flow does not deserialize"])

KnownStorageTypes == {"Local"}

(* StorageSchema().load(data): dispatch on the discriminator data.type *)
StorageSchemaLoad(data) ==
    IF data.type \in KnownStorageTypes
    THEN Returns([cls |-> data.type])
    ELSE Raises([kind |-> "BadResponse", msg |-> "unknown storage discriminator"])

---------------------------------------------------------------------------
(* FlowView.__init__ and FlowView.from_flow_data *)

(* the keyword arguments __init__ takes besides flow_id, project_name, flow, storage *)
InitKwargs == {"settings", "run_config", "serialized_flow", "archived", "core_version", "name"}

FlowViewInit(flow_id, flow, settings, run_config, serialized_flow, archived, project_name, core_version, storage, name) ==
    [flow_id |-> flow_id, flow |-> flow, settings |-> settings, run_config |-> run_config,
     serialized_flow |-> serialized_flow, archived |-> archived, project_name |-> project_name,
     core_version |-> core_version, storage |-> storage, name |-> name]

(* from_flow_data(flow_data): result is what the call returns or raises,      *)
(* data is the caller's dict as the call leaves it (pop removes keys from it) *)
FromFlowData(fd) ==
    IF "id" \notin DOMAIN fd
    THEN [result |-> Raises(ErrKeyError("id")), data |-> fd]
    ELSE LET d1 == DictPop(fd, "id") IN
    IF "project" \notin DOMAIN d1
    THEN [result |-> Raises(ErrKeyError("project")), data |-> d1]
    ELSE LET d2 == DictPop(d1, "project") IN
    IF d1.project = NoneVal
    THEN [result |-> Raises(ErrNoneSubscript), data |-> d2]
    ELSE IF "serialized_flow" \notin DOMAIN d2
    THEN [result |-> Raises(ErrKeyError("serialized_flow")), data |-> d2]
    ELSE LET deserialized_flow == FlowSchemaLoad(d2.serialized_flow) IN
    IF ~deserialized_flow.ok
    THEN [result |-> deserialized_flow, data |-> d2]
    ELSE IF "storage" \notin DOMAIN d2
    THEN [result |-> Raises(ErrKeyError("storage")), data |-> d2]
    ELSE LET d3 == DictPop(d2, "storage")
             storage == StorageSchemaLoad(d2.storage) IN
    IF ~storage.ok
    THEN [result |-> storage, data |-> d3]
    ELSE IF DOMAIN d3 # InitKwargs
    THEN [result |-> Raises(ErrInitArguments), data |-> d3]
    ELSE [result |-> Returns(FlowViewInit(fd.id, deserialized_flow.value, d3.settings, d3.run_config,
                                          d3.serialized_flow, d3.archived, d1.project.name,
                                          d3.core_version, storage.value, d3.name)),
          data |-> d3]

---------------------------------------------------------------------------
(* The backend: a table of flow rows, and the transport that queries it *)

FlowIds == {"a", "b"}

(* the names the registered flows carry, and the names a caller asks for *)
RowNames == {"n1"}

FlowNames == RowNames \cup {"n2"}

ProjectNames == {"p1"}

StorageTypes == {"Local", "Bogus"}

(* a row of the flow table; the columns that no claim reads follow from the others *)
FlowRow(id, name, archived, project, stype) ==
    [id |-> id, name |-> name, archived |-> archived, project |-> project,
     storage |-> [type |-> stype],
     settings |-> [heartbeat_enabled |-> ~archived],
     run_config |-> [type |-> "UniversalRun", labels |-> id],
     serialized_flow |-> SerializedFlow(name),
     core_version |-> IF stype = "Local" THEN "0.14.0" ELSE "0.15.0",
     flow_group_id |-> id]

Projects == {NoneVal} \cup {[name |-> p] : p \in ProjectNames}

(* the rows the backend's table may hold; several rows may carry one id *)
Rows == {FlowRow(id, name, archived, project, stype) :
            id \in FlowIds, name \in RowNames, archived \in BOOLEAN,
            project \in Projects, stype \in StorageTypes}

(* the fields query_for_flows requests of every record *)
RequestedFields == {"id", "settings", "run_config", "serialized_flow", "name",
                    "archived", "project", "core_version", "storage"}

Select(row, fields) == [k \in fields |-> row[k]]

(* EnumValue(token): a bare token of the query language *)
EnumValue(token) == [enum |-> token]

(* f"${key}": the token that names the query variable key *)
Dollar(key) == IF key = "serialized_flow" THEN "$serialized_flow" ELSE "$"

(* does the row satisfy the where clause (field / operator / value, conjoined) *)
Matches(row, where, variables) ==
    /\ "id" \in DOMAIN where => row.id = where.id._eq
    /\ "name" \in DOMAIN where => row.name = where.name._eq
    /\ "archived" \in DOMAIN where => row.archived = where.archived._eq
    /\ "serialized_flow" \in DOMAIN where =>
          /\ "enum" \in DOMAIN where.serialized_flow._eq
          /\ \E key \in DOMAIN variables :
                /\ Dollar(key) = where.serialized_flow._eq.enum
                /\ row.serialized_flow = variables[key]
    /\ "project" \in DOMAIN where =>
          IF "_is_null" \in DOMAIN where.project.name
          THEN row.project = NoneVal
          ELSE row.project # NoneVal /\ row.project.name = where.project.name._eq

Reverse(seq) == [i \in 1..Len(seq) |-> seq[Len(seq) + 1 - i]]

(* the records the backend answers with: the matching rows, most recently *)
(* updated first under order_by updated_at desc, in table order otherwise *)
Execute(qd, rows) ==
    LET hit(row) == Matches(row, qd.args.where, qd.variables)
        found == SelectSeq(rows, hit)
        ordered == IF "order_by" \in DOMAIN qd.args THEN Reverse(found) ELSE found
    IN  [i \in 1..Len(ordered) |-> Select(ordered[i], qd.fields)]

(* what the transport can do with a query *)
TransportModes == {"ok", "no_data", "no_flow", "fails"}

(* a jsonb value written into the where clause itself: such a query fails *)
InlineJsonb(where) ==
    "serialized_flow" \in DOMAIN where /\ "enum" \notin DOMAIN where.serialized_flow._eq

(* client.graphql(flow_query, variables=jsonb_variables) *)
ClientGraphql(qd, rows, mode) ==
    CASE mode = "fails" \/ InlineJsonb(qd.args.where) ->
            Raises([kind |-> "ClientError", msg |-> "transport call failed"])
      [] mode = "ok" -> Returns([data |-> [flow |-> Execute(qd, rows)]])
      [] mode = "no_data" -> Returns([errors |-> "malformed"])
      [] mode = "no_flow" -> Returns([data |-> EmptyDict])

---------------------------------------------------------------------------
(* FlowView.query_for_flows and FlowView.query_for_flow *)

NoQuery == [sent |-> FALSE]

(* isinstance(val, dict): not None and not a wrapped scalar *)
IsDict(val) == (DOMAIN val) \cap {"py", "str", "int"} = {}

(* error_on_empty defaulting to False *)
ErrorOnEmptyDefault_Off == FALSE

(* the default of query_for_flows' error_on_empty parameter *)
ErrorOnEmptyDefault == TRUE

(* jsonb_variables or {} *)
OrEmptyDict(jsonb_variables) ==
    IF jsonb_variables = NoneVal THEN EmptyDict ELSE jsonb_variables

(* the query description query_for_flows builds: the declarations of the *)
(* header, the arguments, the requested fields and the variables sent    *)
FlowQuery(where, order_by, variables) ==
    [sent |-> TRUE,
     header |-> {[var |-> Dollar(key), type |-> "jsonb"] : key \in DOMAIN variables},
     args |-> IF order_by # NoneVal
              THEN [where |-> where, order_by |-> order_by]
              ELSE [where |-> where],
     fields |-> RequestedFields,
     variables |-> variables]

(* query_for_flows from the response on: result.get("data", {}).get("flow") *)
(* and the tests on it                                                      *)
FlowsOfResponse(response, where, error_on_empty) ==
    IF ~response.ok
    THEN response
    ELSE IF ~("data" \in DOMAIN response.value /\ "flow" \in DOMAIN response.value.data)
    THEN Raises(ErrBadResult(where))
    ELSE IF Len(response.value.data.flow) = 0
    THEN IF error_on_empty THEN Raises(ErrNoResults(where)) ELSE Returns(<<>>)
    ELSE Returns(response.value.data.flow)

(* query_for_flows once the variables are validated *)
SendFlowQuery(flow_query, where, error_on_empty, rows, mode) ==
    [result |-> FlowsOfResponse(ClientGraphql(flow_query, rows, mode), where, error_on_empty),
     query |-> flow_query]

(* query_for_flows(where, order_by, error_on_empty, jsonb_variables): result *)
(* is the list returned or the error raised, query the description sent     *)
QueryForFlows(where, order_by, error_on_empty, jsonb_variables, rows, mode) ==
    LET variables == OrEmptyDict(jsonb_variables)
        bad == {key \in DOMAIN variables : ~IsDict(variables[key])}
    IN  IF bad # {}
        THEN [result |-> Raises(ErrJsonbType(CHOOSE key \in bad : TRUE)), query |-> NoQuery]
        ELSE SendFlowQuery(FlowQuery(where, order_by, variables), where, error_on_empty, rows, mode)

(* the ambiguity test off by one: len(flows) > 2 *)
SingleFlow_OffByOne(q, where) ==
    IF ~q.result.ok
    THEN q
    ELSE IF Len(q.result.value) > 2
    THEN [result |-> Raises(ErrFoundMultiple(where, Len(q.result.value))), query |-> q.query]
    ELSE IF Len(q.result.value) = 0
    THEN [result |-> Returns(EmptyDict), query |-> q.query]
    ELSE [result |-> Returns(q.result.value[1]), query |-> q.query]

(* query_for_flow from the list of flows on: several flows raise, none *)
(* gives {}, one is returned                                           *)
SingleFlow(q, where) ==
    IF ~q.result.ok
    THEN q
    ELSE IF Len(q.result.value) > 1
    THEN [result |-> Raises(ErrFoundMultiple(where, Len(q.result.value))), query |-> q.query]
    ELSE IF Len(q.result.value) = 0
    THEN [result |-> Returns(EmptyDict), query |-> q.query]
    ELSE [result |-> Returns(q.result.value[1]), query |-> q.query]

(* query_for_flow(where, **kwargs): the single record, {} for none *)
QueryForFlow(where, order_by, jsonb_variables, rows, mode) ==
    SingleFlow(QueryForFlows(where, order_by, ErrorOnEmptyDefault, jsonb_variables, rows, mode), where)

---------------------------------------------------------------------------
(* The three lookups *)

(* cls.from_flow_data(cls.query_for_flow(...)): an error of the query is *)
(* raised on, a record is deserialized                                   *)
ViewOfQuery(q) ==
    IF ~q.result.ok
    THEN q
    ELSE [result |-> FromFlowData(q.result.value).result, query |-> q.query]

(* from_flow_id(flow_id) *)
FromFlowId(flow_id, rows, mode) ==
    IF "str" \notin DOMAIN flow_id
    THEN [result |-> Raises(TypeErrorFlowId), query |-> NoQuery]
    ELSE ViewOfQuery(QueryForFlow([id |-> [_eq |-> flow_id.str]], NoneVal, NoneVal, rows, mode))

(* from_flow_obj's where clause without the archived condition *)
FlowObjWhere_NoArchived(allow_archived) ==
    [serialized_flow |-> [_eq |-> EnumValue("$serialized_flow")]]

(* the where clause from_flow_obj builds *)
FlowObjWhere(allow_archived) ==
    IF ~allow_archived
    THEN [serialized_flow |-> [_eq |-> EnumValue("$serialized_flow")], archived |-> [_eq |-> FALSE]]
    ELSE [serialized_flow |-> [_eq |-> EnumValue("$serialized_flow")]]

(* from_flow_obj writing the serialized flow into the where clause *)
FromFlowObj_Inline(flow, allow_archived, rows, mode) ==
    ViewOfQuery(QueryForFlow(IF ~allow_archived
                             THEN [serialized_flow |-> [_eq |-> FlowSerialize(flow)],
                                   archived |-> [_eq |-> FALSE]]
                             ELSE [serialized_flow |-> [_eq |-> FlowSerialize(flow)]],
                             NoneVal, NoneVal, rows, mode))

(* from_flow_obj(flow, allow_archived) *)
FromFlowObj(flow, allow_archived, rows, mode) ==
    ViewOfQuery(QueryForFlow(FlowObjWhere(allow_archived), NoneVal,
                             [serialized_flow |-> FlowSerialize(flow)], rows, mode))

(* the where clause from_flow_name builds *)
FlowNameWhere(flow_name, project_name) ==
    IF project_name # Str("")
    THEN [name |-> [_eq |-> flow_name], archived |-> [_eq |-> FALSE],
          project |-> [name |-> IF project_name # NoneVal
                                THEN [_eq |-> project_name.str]
                                ELSE [_is_null |-> TRUE]]]
    ELSE [name |-> [_eq |-> flow_name], archived |-> [_eq |-> FALSE]]

(* from_flow_name after its query; flows is what query_for_flow returned, a *)
(* dict: len(flows) counts its keys and flows[0] looks up the key 0, which  *)
(* a record's dict (string keys) does not hold                              *)
FirstOfFlows(q, where, last_updated) ==
    IF ~q.result.ok
    THEN q
    ELSE IF Cardinality(DOMAIN q.result.value) > 1 /\ ~last_updated
    THEN [result |-> Raises(ErrFoundMultipleMatching(where)), query |-> q.query]
    ELSE [result |-> Raises(ErrKeyError("0")), query |-> q.query]

(* from_flow_name(flow_name, project_name, last_updated) *)
FromFlowName(flow_name, project_name, last_updated, rows, mode) ==
    FirstOfFlows(QueryForFlow(FlowNameWhere(flow_name, project_name),
                              [updated_at |-> EnumValue("desc")], NoneVal, rows, mode),
                 FlowNameWhere(flow_name, project_name), last_updated)

---------------------------------------------------------------------------
(* The state machine: the backend table changes, a caller makes one lookup *)
(* at a time and takes its outcome                                         *)

NoCall == [op |-> "none"]

NoOutcome == [tag |-> "none"]

NoData == [held |-> FALSE]

(* the outcome of a call: the view returned or the error raised *)
OutcomeOf(result) ==
    IF result.ok
    THEN [tag |-> "view", view |-> result.value]
    ELSE [tag |-> "raise", error |-> result.error]

FlowIdArgs == {Str(id) : id \in FlowIds} \cup {Num(7)}

FlowArgs == {FlowObj(name) : name \in FlowNames}

ProjectArgs == {Str(""), NoneVal} \cup {Str(p) : p \in ProjectNames}

(* the raw records a caller may hold: what a query returns for a row, *)
(* with a graph that deserializes or one that does not                *)
RawRecords ==
    LET rows == {FlowRow(id, name, archived, project, stype) :
                    id \in FlowIds, name \in FlowNames, archived \in BOOLEAN,
                    project \in Projects, stype \in StorageTypes}
        good == {Select(row, RequestedFields) : row \in rows}
    IN  good \cup {[rec EXCEPT !.serialized_flow = CorruptFlow(rec.name)] : rec \in good}

Init ==
    /\ store = <<>>
    /\ pc = "idle"
    /\ call = NoCall
    /\ query = NoQuery
    /\ outcome = NoOutcome
    /\ flow_data = NoData

(* a flow is registered with the backend: the most recently updated row *)
Register(row) ==
    /\ pc = "idle"
    /\ Len(store) < MaxStore
    /\ store' = Append(store, row)
    /\ UNCHANGED <<pc, call, query, outcome, flow_data>>

(* a lookup ends: r is what it returned or raised and the query it sent *)
Lookup(r) ==
    /\ outcome' = OutcomeOf(r.result)
    /\ query' = r.query
    /\ pc' = "done"
    /\ UNCHANGED <<store, flow_data>>

CallFromFlowId(flow_id, mode) ==
    /\ pc = "idle"
    /\ call' = [op |-> "from_flow_id", flow_id |-> flow_id, mode |-> mode]
    /\ Lookup(FromFlowId(flow_id, store, mode))

CallFromFlowObj(flow, allow_archived, mode) ==
    /\ pc = "idle"
    /\ call' = [op |-> "from_flow_obj", flow |-> flow, allow_archived |-> allow_archived, mode |-> mode]
    /\ Lookup(FromFlowObj(flow, allow_archived, store, mode))

CallFromFlowName(flow_name, project_name, last_updated, mode) ==
    /\ pc = "idle"
    /\ call' = [op |-> "from_flow_name", flow_name |-> flow_name, project_name |-> project_name,
                last_updated |-> last_updated, mode |-> mode]
    /\ Lookup(FromFlowName(flow_name, project_name, last_updated, store, mode))

(* the caller takes the outcome of its call *)
Return ==
    /\ pc = "done"
    /\ pc' = "idle"
    /\ call' = NoCall
    /\ query' = NoQuery
    /\ outcome' = NoOutcome
    /\ UNCHANGED <<store, flow_data>>

Next ==
    \/ \E row \in Rows : Register(row)
    \/ \E flow_id \in FlowIdArgs, mode \in TransportModes : CallFromFlowId(flow_id, mode)
    \/ \E flow \in FlowArgs, allow_archived \in BOOLEAN, mode \in TransportModes :
          CallFromFlowObj(flow, allow_archived, mode)
    \/ \E flow_name \in FlowNames, project_name \in ProjectArgs, last_updated \in BOOLEAN,
          mode \in TransportModes :
          CallFromFlowName(flow_name, project_name, last_updated, mode)
    \/ Return

Spec == Init /\ [][Next]_vars

(* A caller that holds a pre-fetched raw record and builds views from it *)
InitData ==
    /\ store = <<>>
    /\ pc = "idle"
    /\ call = NoCall
    /\ query = NoQuery
    /\ outcome = NoOutcome
    /\ flow_data \in RawRecords

(* from_flow_data ends: r is what it returned or raised and what it left *)
(* of the caller's record                                               *)
Construct(r) ==
    /\ outcome' = OutcomeOf(r.result)
    /\ flow_data' = r.data
    /\ pc' = "done"
    /\ UNCHANGED <<store, query>>

CallFromFlowData ==
    /\ pc = "idle"
    /\ flow_data # NoData
    /\ call' = [op |-> "from_flow_data", flow_data |-> flow_data]
    /\ Construct(FromFlowData(flow_data))

NextData ==
    \/ CallFromFlowData
    \/ Return

SpecData == InitData /\ [][NextData]_vars

---------------------------------------------------------------------------
(* What the backend holds for a lookup, stated on the table itself *)

RowsById(id) ==
    LET hit(row) == row.id = id IN SelectSeq(store, hit)

RowsByGraph(flow, allow_archived) ==
    LET hit(row) == /\ row.serialized_flow = FlowSerialize(flow)
                    /\ (allow_archived \/ ~row.archived)
    IN  SelectSeq(store, hit)

RowsByName(flow_name, project_name) ==
    LET hit(row) == /\ row.name = flow_name
                    /\ ~row.archived
                    /\ \/ project_name = Str("")
                       \/ project_name = NoneVal /\ row.project = NoneVal
                       \/ /\ project_name # NoneVal
                          /\ row.project # NoneVal
                          /\ row.project.name = project_name.str
    IN  SelectSeq(store, hit)

(* a row whose project is present and whose graph and storage deserialize *)
WellFormed(row) ==
    /\ row.project # NoneVal
    /\ row.storage.type \in KnownStorageTypes
    /\ row.serialized_flow.type = "Flow"

(* the view's passthrough fields are those of the row *)
BuiltFrom(view, row) ==
    /\ view.flow_id = row.id
    /\ view.name = row.name
    /\ view.archived = row.archived
    /\ view.settings = row.settings
    /\ view.run_config = row.run_config
    /\ view.serialized_flow = row.serialized_flow
    /\ view.core_version = row.core_version

ByIdCall == pc = "done" /\ call.op = "from_flow_id" /\ "str" \in DOMAIN call.flow_id

ByObjCall == pc = "done" /\ call.op = "from_flow_obj"

ByNameCall == pc = "done" /\ call.op = "from_flow_name"

DataCall == pc = "done" /\ call.op = "from_flow_data"

---------------------------------------------------------------------------
(* C1: whenever exactly one row has the id asked for (here even restricted *)
(* to a row whose storage and graph deserialize), from_flow_id returns a   *)
(* view whose flow_id is the id passed in and whose name, archived,        *)
(* settings, run_config, serialized_flow and core_version are the row's.   *)
C1_ByIdReturnsTheRecord ==
    (ByIdCall /\ call.mode = "ok") =>
        LET hits == RowsById(call.flow_id.str) IN
        (/\ Len(hits) = 1
         /\ hits[1].storage.type \in KnownStorageTypes
         /\ hits[1].serialized_flow.type = "Flow") =>
            /\ outcome.tag = "view"
            /\ outcome.view.flow_id = call.flow_id.str
            /\ BuiltFrom(outcome.view, hits[1])

(* C2: when no row has the id asked for, from_flow_id raises the "No       *)
(* results found" error for its where clause; it returns no view and does  *)
(* not go on to deserialize an empty record (which would be a KeyError).   *)
C2_ByIdZeroRecordsNotFound ==
    (ByIdCall /\ call.mode = "ok" /\ Len(RowsById(call.flow_id.str)) = 0) =>
        /\ outcome.tag = "raise"
        /\ outcome.error = ErrNoResults([id |-> [_eq |-> call.flow_id.str]])

C2_Witness ==
    /\ ByIdCall /\ call.mode = "ok"
    /\ Len(store) > 0
    /\ Len(RowsById(call.flow_id.str)) = 0
    /\ outcome.tag = "raise"
    /\ outcome.error.msg = "No results found while querying for flows"

(* C3: when more than one row matches the name query and last_updated is   *)
(* set, from_flow_name returns the view of the most recently updated       *)
(* matching row (here restricted to a well-formed one) and raises nothing. *)
C3_ByNameMostRecent ==
    (ByNameCall /\ call.mode = "ok" /\ call.last_updated) =>
        LET hits == RowsByName(call.flow_name, call.project_name) IN
        (Len(hits) > 1 /\ WellFormed(hits[Len(hits)])) =>
            /\ outcome.tag = "view"
            /\ BuiltFrom(outcome.view, hits[Len(hits)])

(* C4: when exactly one row matches the name query (here restricted to a   *)
(* well-formed one), from_flow_name returns the view of that row, whatever *)
(* last_updated and project_name are, and raises nothing.                  *)
C4_ByNameSingleRecord ==
    (ByNameCall /\ call.mode = "ok") =>
        LET hits == RowsByName(call.flow_name, call.project_name) IN
        (Len(hits) = 1 /\ WellFormed(hits[1])) =>
            /\ outcome.tag = "view"
            /\ BuiltFrom(outcome.view, hits[1])

(* C5: when more than one row matches and most-recent resolution is not   *)
(* enabled (from_flow_id, from_flow_obj, from_flow_name without            *)
(* last_updated), the call raises the "Found multiple" error carrying the  *)
(* where clause that was sent and the number of records, and no view.      *)
C5_AmbiguousResult ==
    /\ (ByIdCall /\ call.mode = "ok" /\ Len(RowsById(call.flow_id.str)) > 1) =>
          /\ outcome.tag = "raise"
          /\ outcome.error = ErrFoundMultiple(query.args.where, Len(RowsById(call.flow_id.str)))
          /\ query.args.where = [id |-> [_eq |-> call.flow_id.str]]
    /\ (ByObjCall /\ call.mode = "ok" /\ Len(RowsByGraph(call.flow, call.allow_archived)) > 1) =>
          /\ outcome.tag = "raise"
          /\ outcome.error = ErrFoundMultiple(query.args.where,
                                              Len(RowsByGraph(call.flow, call.allow_archived)))
          /\ "serialized_flow" \in DOMAIN query.args.where
    /\ (/\ ByNameCall /\ call.mode = "ok" /\ ~call.last_updated
        /\ Len(RowsByName(call.flow_name, call.project_name)) > 1) =>
          /\ outcome.tag = "raise"
          /\ outcome.error = ErrFoundMultiple(query.args.where,
                                              Len(RowsByName(call.flow_name, call.project_name)))
          /\ query.args.where.name = [_eq |-> call.flow_name]

C5_Witness ==
    /\ ByNameCall /\ call.mode = "ok" /\ ~call.last_updated
    /\ Len(RowsByName(call.flow_name, call.project_name)) = 2
    /\ outcome.tag = "raise"
    /\ outcome.error.kind = "ValueError"
    /\ outcome.error.where = query.args.where
    /\ outcome.error.count = 2

(* C6: from_flow_obj without allow_archived always sends `archived equals  *)
(* false` and never returns a view whose archived is true; with            *)
(* allow_archived the where clause has no archived condition.              *)
C6_NoArchivedUnlessAllowed ==
    /\ (ByObjCall /\ query.sent) =>
          /\ ("archived" \in DOMAIN query.args.where) <=> ~call.allow_archived
          /\ ~call.allow_archived => query.args.where.archived = [_eq |-> FALSE]
    /\ (ByObjCall /\ ~call.allow_archived /\ outcome.tag = "view") =>
          ~outcome.view.archived

(* with allow_archived an archived flow is returned *)
C6_Witness ==
    /\ ByObjCall /\ call.allow_archived
    /\ outcome.tag = "view"
    /\ outcome.view.archived
    /\ "archived" \notin DOMAIN query.args.where

(* C7: the query from_flow_obj sends carries the graph's serialized form   *)
(* only as the value of a variable declared in the query header; the where *)
(* clause holds the token naming that variable, and besides it only the    *)
(* archived condition, never the serialized graph.                         *)
C7_GraphOutOfBand ==
    (ByObjCall /\ query.sent) =>
        /\ query.variables = [serialized_flow |-> FlowSerialize(call.flow)]
        /\ "enum" \in DOMAIN query.args.where.serialized_flow._eq
        /\ \E key \in DOMAIN query.variables :
              /\ Dollar(key) = query.args.where.serialized_flow._eq.enum
              /\ [var |-> Dollar(key), type |-> "jsonb"] \in query.header
        /\ query.args.where.serialized_flow._eq # FlowSerialize(call.flow)
        /\ DOMAIN query.args.where \subseteq {"serialized_flow", "archived"}

C7_Witness ==
    /\ ByObjCall /\ query.sent /\ call.mode = "ok"
    /\ Len(RowsByGraph(call.flow, call.allow_archived)) = 1
    /\ outcome.tag = "view"
    /\ query.variables.serialized_flow = outcome.view.serialized_flow
    /\ query.args.where.serialized_flow._eq = EnumValue("$serialized_flow")

LookupDone == pc = "done" /\ call.op \in {"from_flow_id", "from_flow_obj", "from_flow_name"}

UnknownStorageRaises(hits) ==
    (Len(hits) = 1 /\ hits[1].storage.type \notin KnownStorageTypes) =>
        /\ outcome.tag = "raise"
        /\ IF hits[1].project = NoneVal
           THEN outcome.error = ErrNoneSubscript
           ELSE outcome.error.kind = "BadResponse" /\ outcome.error.kind # "ValueError"

Loadable(rec) ==
    /\ DOMAIN rec = RequestedFields
    /\ rec.storage.type \in KnownStorageTypes
    /\ rec.serialized_flow.type = "Flow"

(* C9: from_flow_data on a record whose project is None returns a view     *)
(* whose project_name is None and whose other fields are the record's.     *)
C9_NullProject ==
    (DataCall /\ Loadable(call.flow_data) /\ call.flow_data.project = NoneVal) =>
        /\ outcome.tag = "view"
        /\ outcome.view.project_name = NoneVal
        /\ BuiltFrom(outcome.view, call.flow_data)

(* C10: from_flow_data leaves the caller's record as it was (here even for *)
(* a record it builds a view from), so that a second from_flow_data on it  *)
(* returns a view equal to the first.                                      *)
C10_RecordUnchanged ==
    (DataCall /\ Loadable(call.flow_data) /\ call.flow_data.project # NoneVal) =>
        /\ flow_data = call.flow_data
        /\ outcome.tag = "view" => OutcomeOf(FromFlowData(flow_data).result) = outcome

====
